---- MODULE Spec2Model ----
(***************************************************************************)
(* Stuvify Jobs API (src/main.py, src/schemas.py): the request handlers    *)
(* test_database, list_jobs, seed_jobs and apply over a document store     *)
(* holding the collections "job" and "application".                        *)
(*                                                                         *)
(* Conventions.  An Optional[str] value is <<>> for None and <<s>> for the *)
(* string s.  A store identity (ObjectId) is a natural number; its string  *)
(* form is a sequence of one-character strings.  The status strings of the *)
(* diagnostic check are written without their leading pictograms.          *)
(***************************************************************************)
EXTENDS Integers, Sequences, FiniteSets, TLC

\* ---------------------------------------------------------------- bounds
NumProcs == 2        \* request slots that may run seed_jobs
MaxApps == 1         \* apply is not issued once this many applications exist
MaxOtherCollections == 10  \* collections of the store besides job/application
OidHexLen == 2       \* hex digits of an identity's string form
OidBase == 10        \* the first identity the store assigns

Procs == 1..NumProcs

VARIABLES
    db,           \* the module-level store handle: "None" or "handle"
    job,          \* the "job" collection, in insertion order
    application,  \* the "application" collection, in insertion order
    nextOid,      \* the identity the store assigns to the next document
    pc,           \* pc[p]: where request slot p stands in seed_jobs
    inserted,     \* inserted[p]: seed_jobs' local counter
    resp,         \* the latest completed request and its outcome
    before,       \* both collections as they were when the latest request began
    faulted,      \* some store operation has raised so far
    reported      \* sum of the inserted counts seed_jobs has returned so far

vars == <<db, job, application, nextOid, pc, inserted, resp, before, faulted, reported>>

\* ------------------------------------------------------- Optional values
None == <<>>

Some(s) == <<s>>

\* Python truthiness of an Optional[str]: None and "" are falsy.
Truthy(opt) == opt # None /\ opt[1] # ""

\* ------------------------------------------------------------ identities
HexDigits == <<"0", "1", "2", "3", "4", "5", "6", "7", "8", "9", "a", "b", "c", "d", "e", "f">>

UpperDigits == <<"0", "1", "2", "3", "4", "5", "6", "7", "8", "9", "A", "B", "C", "D", "E", "F">>

IsHexChar(c) == \E i \in 1..16 : HexDigits[i] = c \/ UpperDigits[i] = c

HexValue(c) == (CHOOSE i \in 1..16 : HexDigits[i] = c \/ UpperDigits[i] = c) - 1

RECURSIVE Pow16(_)
Pow16(k) == IF k = 0 THEN 1 ELSE 16 * Pow16(k - 1)

\* str(ObjectId): fixed-width lower-case hex.
OidStr(n) == [i \in 1..OidHexLen |-> HexDigits[((n \div Pow16(OidHexLen - i)) % 16) + 1]]

\* ObjectId(s) accepts exactly the strings of OidHexLen hex digits, either case.
ObjectIdValid(s) == Len(s) = OidHexLen /\ \A i \in 1..Len(s) : IsHexChar(s[i])

RECURSIVE HexToNat(_)
HexToNat(s) == IF s = <<>> THEN 0 ELSE 16 * HexToNat(SubSeq(s, 1, Len(s) - 1)) + HexValue(s[Len(s)])

ObjectId(s) == HexToNat(s)

Upper(s) == [i \in 1..Len(s) |-> UpperDigits[HexValue(s[i]) + 1]]

\* ------------------------------------------------------- store adapter
\* create_document: the record with the store-assigned identity, appended.
InsertOne(coll, doc, oid) == Append(coll, [_id |-> oid] @@ doc)

Matches(doc, filter) == \A k \in DOMAIN filter : k \in DOMAIN doc /\ doc[k] = filter[k]

\* get_documents: the records matching every key/value pair of the filter.
GetDocuments(coll, filter) == SelectSeq(coll, LAMBDA d : Matches(d, filter))

\* find_one({"_id": oid}): <<>> for None, else <<doc>>.
FindOne(coll, oid) == LET hits == SelectSeq(coll, LAMBDA d : d._id = oid)
                      IN  IF hits = <<>> THEN None ELSE Some(hits[1])

CountDocuments(coll) == Len(coll)

\* ------------------------------------------------------------ helpers
serialize_doc(doc) ==
    IF "_id" \in DOMAIN doc
    THEN [k \in (DOMAIN doc \ {"_id"}) \cup {"id"} |-> IF k = "id" THEN OidStr(doc._id) ELSE doc[k]]
    ELSE doc

\* [serialize_doc(j) for j in jobs]
SerializeAll(docs) == [i \in 1..Len(docs) |-> serialize_doc(docs[i])]

Snapshot == [job |-> job, application |-> application]

Init ==
    /\ db \in {"None", "handle"}
    /\ job = <<>>
    /\ application = <<>>
    /\ nextOid = OidBase
    /\ pc = [p \in Procs |-> "idle"]
    /\ inserted = [p \in Procs |-> 0]
    /\ resp = [op |-> "none"]
    /\ before = Snapshot
    /\ faulted = FALSE
    /\ reported = 0

\* ------------------------------------------------------------ seed_jobs
\* The three fixed Job records of seed_jobs, with the schema's defaults filled in.
SAMPLES == <<
    [title |-> "Frontend Developer", department |-> "Engineering", location |-> "Remote",
     type |-> "Full-time",
     description |-> "Build immersive UIs with React and Three.js for Stuvify.",
     requirements |-> <<"3+ years React", "Experience with R3F/Three.js", "Strong UI skills">>,
     featured |-> TRUE],
    [title |-> "3D Designer", department |-> "Design", location |-> "Hybrid - SF",
     type |-> "Contract",
     description |-> "Design GLTF assets and futuristic scenes for our career hub.",
     requirements |-> <<"GLTF/GLB workflow", "Blender/C4D", "Understanding of web performance">>,
     featured |-> FALSE],
    [title |-> "Growth Marketer", department |-> "Marketing", location |-> "Remote",
     type |-> "Part-time",
     description |-> "Drive campaigns and partnerships for student hiring.",
     requirements |-> <<"Lifecycle marketing", "Content strategy", "Analytics">>,
     featured |-> FALSE] >>

\* Variant: the count reads the wrong collection.
CountExisting_OtherCollection == IF db # "None" THEN CountDocuments(application) ELSE 0

\* existing = db["job"].count_documents({}) if db else 0
\* (a configured handle is taken to be truthy)
CountExisting == IF db # "None" THEN CountDocuments(job) ELSE 0

\* Variant: the guard compares against the number of samples.
AlreadySeeded_AboveThree(existing) == existing > 3

\* Variant: the guard is never taken.
AlreadySeeded_Never(existing) == existing < 0

\* if existing > 0: return {"inserted": 0, ...}
AlreadySeeded(existing) == existing > 0

\* The count and the guard.  With no handle nothing is counted, so no store
\* operation can raise here.
SeedBegin(p) ==
    /\ pc[p] = "idle"
    /\ before' = Snapshot
    /\ \E fault \in (IF db # "None" THEN BOOLEAN ELSE {FALSE}) :
        IF fault
        THEN /\ resp' = [op |-> "seed", status |-> 500, detail |-> "StoreError"]
             /\ faulted' = TRUE
             /\ UNCHANGED <<pc, inserted>>
        ELSE IF AlreadySeeded(CountExisting)
        THEN /\ resp' = [op |-> "seed", status |-> 200,
                         body |-> [inserted |-> 0, message |-> "Jobs already exist"]]
             /\ UNCHANGED <<pc, inserted, faulted>>
        ELSE /\ pc' = [pc EXCEPT ![p] = "insert"]
             /\ inserted' = [inserted EXCEPT ![p] = 0]
             /\ resp' = [op |-> "none"]
             /\ UNCHANGED faulted
    /\ UNCHANGED <<db, job, application, nextOid, reported>>

\* One turn of the loop: create_document("job", job); inserted += 1; after
\* the last sample, return {"inserted": inserted}.  The local counter ends
\* with the call.
SeedInsert(p) ==
    /\ pc[p] = "insert"
    /\ \E fault \in (IF db # "None" THEN BOOLEAN ELSE {FALSE}) :
        IF db = "None" \/ fault
        THEN /\ resp' = [op |-> "seed", status |-> 500, detail |-> "StoreError"]
             /\ faulted' = TRUE
             /\ pc' = [pc EXCEPT ![p] = "idle"]
             /\ inserted' = [inserted EXCEPT ![p] = 0]
             /\ UNCHANGED <<job, nextOid, reported>>
        ELSE /\ job' = InsertOne(job, SAMPLES[inserted[p] + 1], nextOid)
             /\ nextOid' = nextOid + 1
             /\ IF inserted[p] + 1 = Len(SAMPLES)
                THEN /\ pc' = [pc EXCEPT ![p] = "idle"]
                     /\ inserted' = [inserted EXCEPT ![p] = 0]
                     /\ resp' = [op |-> "seed", status |-> 200,
                                 body |-> [inserted |-> inserted[p] + 1]]
                     /\ reported' = reported + inserted[p] + 1
                ELSE /\ inserted' = [inserted EXCEPT ![p] = @ + 1]
                     /\ resp' = [op |-> "none"]
                     /\ UNCHANGED <<pc, reported>>
             /\ UNCHANGED faulted
    /\ UNCHANGED <<db, application, before>>

\* ------------------------------------------------------------ list_jobs
\* Variant: the location parameter is left out of the filter.
FilterQuery_NoLocation(department, type, location) ==
    LET given == [department |-> department, type |-> type]
    IN  [k \in {f \in DOMAIN given : Truthy(given[f])} |-> given[k][1]]

\* filter_query: one exact-match constraint per truthy parameter.
FilterQuery(department, type, location) ==
    LET given == [department |-> department, type |-> type, location |-> location]
    IN  [k \in {f \in DOMAIN given : Truthy(given[f])} |-> given[k][1]]

DepartmentInputs == {None, Some(""), Some("Engineering")}

TypeInputs == {None, Some(""), Some("Contract")}

LocationInputs == {None, Some(""), Some("Remote")}

list_jobs ==
    /\ \E department \in DepartmentInputs, type \in TypeInputs, location \in LocationInputs,
          fault \in (IF db # "None" THEN BOOLEAN ELSE {FALSE}) :
        LET req == [department |-> department, type |-> type, location |-> location]
        IN  IF db = "None" \/ fault
            THEN /\ resp' = [op |-> "list", req |-> req, status |-> 500, detail |-> "StoreError"]
                 /\ faulted' = TRUE
            ELSE /\ resp' = [op |-> "list", req |-> req, status |-> 200,
                             body |-> SerializeAll(GetDocuments(job, FilterQuery(department, type, location)))]
                 /\ UNCHANGED faulted
    /\ before' = Snapshot
    /\ UNCHANGED <<db, job, application, nextOid, pc, inserted, reported>>

\* ---------------------------------------------------------------- apply
\* The scheme the URL parser finds in each string the requests carry.
UrlScheme(u) ==
    CASE u = "https://ada.dev/cv" -> "https"
      [] u = "ftp://ada.dev/cv" -> "ftp"
      [] OTHER -> ""

\* Optional[HttpUrl]: None, or a string with scheme http or https.
HttpUrlValid(opt) == opt = None \/ UrlScheme(opt[1]) \in {"http", "https"}

\* Application(...) raises ValidationError when an optional URL is not one.
ValidationError(payload) == ~(HttpUrlValid(payload.portfolio) /\ HttpUrlValid(payload.resume_url))

\* Variant: the two URL fields are taken from each other's payload field.
Application_UrlsSwapped(payload) ==
    [job_id |-> payload.job_id, name |-> payload.name, email |-> payload.email,
     portfolio |-> payload.resume_url, resume_url |-> payload.portfolio,
     cover_letter |-> payload.cover_letter]

\* Application(...): the validated record, field by field from the payload.
Application(payload) ==
    [job_id |-> payload.job_id, name |-> payload.name, email |-> payload.email,
     portfolio |-> payload.portfolio, resume_url |-> payload.resume_url,
     cover_letter |-> payload.cover_letter]

\* Variant: the result of find_one is not looked at.
LookupException_NoExistenceCheck(job_id, fault) ==
    IF db = "None" THEN "TypeError"
    ELSE IF ~ObjectIdValid(job_id) THEN "InvalidId"
    ELSE IF fault = "find_one" THEN "StoreError"
    ELSE "none"

\* Variant: the job_id is handed to the store unparsed, and a malformed one
\* passes.
LookupException_Unparsed(job_id, fault) ==
    IF db = "None" THEN "TypeError"
    ELSE IF fault = "find_one" THEN "StoreError"
    ELSE IF ObjectIdValid(job_id) /\ FindOne(job, ObjectId(job_id)) = None THEN "HTTPException404"
    ELSE "none"

\* What the body of the first try block raises, "none" if it runs through:
\* db["job"] on no handle, ObjectId(...) on a malformed string, find_one on a
\* store error, and the handler's own HTTPException(404) when no job is found.
LookupException(job_id, fault) ==
    IF db = "None" THEN "TypeError"
    ELSE IF ~ObjectIdValid(job_id) THEN "InvalidId"
    ELSE IF fault = "find_one" THEN "StoreError"
    ELSE IF FindOne(job, ObjectId(job_id)) = None THEN "HTTPException404"
    ELSE "none"

\* except Exception: HTTPException is an Exception, so it is caught as well.
CaughtByExceptException(exc) == exc # "none"

JobIdInputs == {OidStr(OidBase), Upper(OidStr(OidBase)), OidStr(Pow16(OidHexLen) - 1),
                [OidStr(OidBase) EXCEPT ![OidHexLen] = "g"], OidStr(OidBase) \o <<"0">>}

GoodUrl == Some("https://ada.dev/cv")

BadUrl == Some("not a url")

\* The optional fields the requests carry: portfolio, resume_url, cover_letter.
OptionalInputs == {<<None, None, None>>, <<GoodUrl, None, Some("Dear team")>>,
                   <<None, GoodUrl, None>>, <<GoodUrl, GoodUrl, Some("Dear team")>>,
                   <<BadUrl, None, None>>, <<None, BadUrl, Some("Dear team")>>,
                   <<GoodUrl, BadUrl, None>>}

\* ApplyPayload objects: the email has passed EmailStr at the request boundary.
Payloads == {[job_id |-> j, name |-> "Ada", email |-> "ada@example.com",
              portfolio |-> o[1], resume_url |-> o[2], cover_letter |-> o[3]] :
             j \in JobIdInputs, o \in OptionalInputs}

apply ==
    /\ Len(application) < MaxApps
    /\ \E payload \in Payloads,
          fault \in (IF db # "None" THEN {"none", "find_one", "insert_one"} ELSE {"none"}) :
        LET exc == LookupException(payload.job_id, fault)
            app_doc == Application(payload)
            invalid == ValidationError(payload)
            out == [op |-> "apply", req |-> payload, fault |-> fault]
        IN  IF CaughtByExceptException(exc)
            THEN /\ resp' = out @@ [status |-> 400, detail |-> "Invalid job id"]
                 /\ faulted' = (faulted \/ fault = "find_one")
                 /\ UNCHANGED <<application, nextOid>>
            ELSE IF invalid \/ fault = "insert_one"
            THEN /\ resp' = out @@ [status |-> 500,
                                    detail |-> IF invalid
                                               THEN "ValidationError" ELSE "StoreError"]
                 /\ faulted' = (faulted \/ ~invalid)
                 /\ UNCHANGED <<application, nextOid>>
            ELSE /\ application' = InsertOne(application, app_doc, nextOid)
                 /\ nextOid' = nextOid + 1
                 /\ resp' = out @@ [status |-> 200,
                                    body |-> [status |-> "ok", application_id |-> OidStr(nextOid)]]
                 /\ UNCHANGED faulted
    /\ before' = Snapshot
    /\ UNCHANGED <<db, job, pc, inserted, reported>>

\* -------------------------------------------------------- test_database
CollectionsShown == 10

\* db.list_collection_names(): a collection exists once it holds a document;
\* other collections of the store are named by their number.
CollectionNames(others) ==
    (IF job # <<>> THEN <<"job">> ELSE <<>>)
    \o (IF application # <<>> THEN <<"application">> ELSE <<>>)
    \o [i \in 1..others |-> ToString(i)]

\* Variant: the names are not cut.
FirstNames_All(names) == names

\* collections[:10]
FirstNames(names) == SubSeq(names, 1, IF Len(names) < CollectionsShown THEN Len(names) ELSE CollectionsShown)

\* test_database: the response it builds, field by field in the order of the
\* code, and the exception that escapes it ("none" when it returns).  The
\* only call that can raise is list_collection_names, inside both try blocks.
TestOutcome(envUrl, envName, names, fault) ==
    LET r0 == [backend |-> "Running", database |-> "Not Available", database_url |-> "None",
               database_name |-> "None", connection_status |-> "Not Connected",
               collections |-> <<>>]
        c == [r0 EXCEPT !.database = "Available",
                        !.database_url = "Configured",
                        !.database_name = "db.name",
                        !.connection_status = "Connected"]
        raised == IF db # "None" /\ fault THEN "StoreError" ELSE "none"
        inner == CaughtByExceptException(raised)
        outer == ~inner /\ raised # "none" /\ CaughtByExceptException(raised)
        r1 == IF db = "None" THEN [r0 EXCEPT !.database = "Available but not initialized"]
              ELSE IF raised = "none"
              THEN [c EXCEPT !.collections = FirstNames(names),
                             !.database = "Connected & Working"]
              ELSE IF inner THEN [c EXCEPT !.database = "Connected but Error: StoreError"]
              ELSE IF outer THEN [c EXCEPT !.database = "Error: StoreError"]
              ELSE c
    IN  [escaped |-> IF inner \/ outer THEN "none" ELSE raised,
         response |-> [r1 EXCEPT !.database_url = IF envUrl THEN "Set" ELSE "Not Set",
                                 !.database_name = IF envName THEN "Set" ELSE "Not Set"]]

test_database ==
    /\ \E envUrl \in BOOLEAN, envName \in BOOLEAN, others \in {0, 1, MaxOtherCollections},
          fault \in (IF db # "None" THEN BOOLEAN ELSE {FALSE}) :
        LET out == TestOutcome(envUrl, envName, CollectionNames(others), fault)
        IN  /\ resp' = [op |-> "test", fault |-> fault, names |-> CollectionNames(others),
                        status |-> IF out.escaped = "none" THEN 200 ELSE 500,
                        body |-> out.response]
            /\ faulted' = (faulted \/ fault)
    /\ before' = Snapshot
    /\ UNCHANGED <<db, job, application, nextOid, pc, inserted, reported>>

\* ------------------------------------------------------- specifications
Quiet == \A p \in Procs : pc[p] = "idle"

\* Requests served one after another: a request begins only when none is running.
Next ==
    \/ Quiet /\ \E p \in Procs : SeedBegin(p)
    \/ \E p \in Procs : SeedInsert(p)
    \/ Quiet /\ list_jobs
    \/ Quiet /\ apply
    \/ Quiet /\ test_database

Spec == Init /\ [][Next]_vars

\* seed_jobs requests interleaved at the granularity of store operations.
NextConcurrent ==
    \/ \E p \in Procs : SeedBegin(p)
    \/ \E p \in Procs : SeedInsert(p)

SpecConcurrent == Init /\ [][NextConcurrent]_vars

\* ================================================================ claims
\* What the properties below read off the state.
JobWithId(coll, s) == ObjectIdValid(s) /\ \E i \in 1..Len(coll) : coll[i]._id = ObjectId(s)

StoreUnchanged == job = before.job /\ application = before.application

LookupThrows == db = "None" \/ ~ObjectIdValid(resp.req.job_id) \/ resp.fault = "find_one"

BadUrlSupplied(opt) == opt # None /\ ~HttpUrlValid(opt)

WithoutId(doc) == [k \in DOMAIN doc \ {"_id"} |-> doc[k]]

PublicJob(d) ==
    [id |-> OidStr(d._id), title |-> d.title, department |-> d.department,
     location |-> d.location, type |-> d.type, description |-> d.description,
     requirements |-> d.requirements, featured |-> d.featured]

\* A parameter constrains its field when it is supplied; withEmpty tells
\* whether one supplied as the empty string does.
Constrains(opt, withEmpty) == opt # None /\ (withEmpty \/ opt[1] # "")

\* The records list_jobs is to return: the jobs, in store order, that equal
\* every constraining parameter, each under its public id.
Expected(withEmpty) ==
    LET hits == SelectSeq(before.job,
                   LAMBDA d : /\ Constrains(resp.req.department, withEmpty)
                                    => d.department = resp.req.department[1]
                              /\ Constrains(resp.req.type, withEmpty)
                                    => d.type = resp.req.type[1]
                              /\ Constrains(resp.req.location, withEmpty)
                                    => d.location = resp.req.location[1])
    IN  [i \in 1..Len(hits) |-> PublicJob(hits[i])]

\* C1: an apply whose job_id is well-formed, matches no job and whose lookup
\* does not throw ends with status 404, and no application is inserted.
C1_UnknownJobIs404 ==
    (resp.op = "apply" /\ ~LookupThrows /\ ~JobWithId(before.job, resp.req.job_id))
        => (resp.status = 404 /\ application = before.application)

\* C2: an apply for an existing job whose portfolio or resume_url is supplied
\* but is no URL ends with a 4xx status, and no application is inserted.
C2_BadUrlIsClientError ==
    (resp.op = "apply" /\ ~LookupThrows /\ JobWithId(before.job, resp.req.job_id)
       /\ (BadUrlSupplied(resp.req.portfolio) \/ BadUrlSupplied(resp.req.resume_url)))
        => (resp.status \in 400..499 /\ application = before.application)

\* C3: with requests served one after another and no store error, a seed call
\* on the empty job collection reports inserted = 3 and leaves exactly the
\* three samples; a seed call on a non-empty job collection succeeds, reports
\* inserted = 0 and leaves the collection as it was; so the collection holds
\* zero or three records and all reported counts sum to what it holds.  A
\* seed call that returns on a non-empty collection inserted nothing, whether
\* or not earlier calls met store errors.
C3_SeedIdempotent ==
    /\ (~faulted /\ Quiet) => (Len(job) \in {0, 3} /\ reported = Len(job))
    /\ (~faulted /\ resp.op = "seed") =>
          /\ resp.status = 200
          /\ Len(job) = 3
          /\ \A i \in 1..3 : WithoutId(job[i]) = SAMPLES[i]
          /\ before.job = <<>> => resp.body.inserted = 3
          /\ before.job # <<>> => (resp.body.inserted = 0 /\ job = before.job)
    /\ (resp.op = "seed" /\ resp.status = 200 /\ before.job # <<>>) =>
          (resp.body.inserted = 0 /\ job = before.job)

\* C3 witness: a second seed call, after a first one that inserted the samples.
C3_Witness ==
    ~faulted /\ resp.op = "seed" /\ before.job # <<>> /\ resp.body.inserted = 0 /\ reported = 3

\* C4 as stated: list_jobs returns exactly the jobs whose fields equal every
\* supplied parameter, the empty string included, each under its public id.
C4_ListMatchesSupplied ==
    (resp.op = "list" /\ resp.status = 200) => resp.body = Expected(TRUE)

\* C4 amended: when the store read succeeds, list_jobs returns exactly the jobs
\* whose fields equal every parameter supplied with a non-empty value (logical
\* AND, exact equality); an absent parameter and one supplied as the empty
\* string impose no constraint; each record carries its identity as id.
C4_ListMatchesNonEmpty ==
    (resp.op = "list" /\ resp.status = 200) =>
        (resp.body = Expected(FALSE) /\ StoreUnchanged)

\* C4 witness: an empty department with a location that two of three jobs have.
C4_Witness ==
    /\ resp.op = "list" /\ resp.status = 200
    /\ resp.req.department = Some("") /\ resp.req.location = Some("Remote")
    /\ Len(job) = 3 /\ Len(resp.body) = 2

C6_ApplicationsReferenceJobs ==
    \A i \in 1..Len(application) : JobWithId(job, application[i].job_id)

\* C6 witness: an application stored under the upper-case spelling of a job's
\* identity, which only the parsed identity matches.
C6_Witness ==
    /\ application # <<>>
    /\ application[1].job_id = Upper(OidStr(OidBase))
    /\ application[1].job_id # OidStr(job[1]._id)

C8_InvalidJobIdIs400 ==
    (resp.op = "apply" /\ LookupThrows) =>
        (resp.status = 400 /\ resp.detail = "Invalid job id" /\ StoreUnchanged)

\* C8 witness: a malformed job_id submitted while jobs exist.
C8_Witness ==
    resp.op = "apply" /\ db # "None" /\ ~ObjectIdValid(resp.req.job_id) /\ job # <<>>
        /\ resp.status = 400

\* C9 as stated: a seed call that fails with status 500 leaves the job
\* collection as it was, so between requests it holds zero or three records.
C9_SeedAllOrNothing ==
    /\ (resp.op = "seed" /\ resp.status = 500) => job = before.job
    /\ Quiet => Len(job) \in {0, 3}

\* C9 amended: a seed call that fails with status 500 leaves the job collection
\* as it was extended by the zero, one or two samples inserted before the
\* error (unchanged when it was not empty); with requests served one after
\* another the collection always is a prefix of the three samples; a seed call
\* that succeeds on the empty collection leaves all three, and one that
\* succeeds on a non-empty, possibly partial, collection adds nothing.
C9_SeedFailureKeepsPrefix ==
    /\ (resp.op = "seed" /\ resp.status = 500) =>
          /\ Len(job) - Len(before.job) \in 0..2
          /\ SubSeq(job, 1, Len(before.job)) = before.job
          /\ before.job # <<>> => job = before.job
    /\ Len(job) <= 3
    /\ \A i \in 1..Len(job) : WithoutId(job[i]) = SAMPLES[i]
    /\ (resp.op = "seed" /\ resp.status = 200 /\ before.job = <<>>) =>
          (Len(job) = 3 /\ resp.body.inserted = 3)
    /\ (resp.op = "seed" /\ resp.status = 200 /\ before.job # <<>>) =>
          (job = before.job /\ resp.body.inserted = 0)

\* C9 witness: a seed call on the empty collection that failed on its third insert.
C9_Witness ==
    resp.op = "seed" /\ resp.status = 500 /\ before.job = <<>> /\ Len(job) = 2

\* C10 as stated: with seed requests interleaved, the job collection never
\* holds more than three records and the reported counts sum to at most three.
C10_ConcurrentAtMostThree == Len(job) <= 3 /\ reported <= 3

\* C10 amended: with at most NumProcs seed requests in flight at a time, each
\* request inserts at most three records, the job collection never holds more
\* than 3 * NumProcs records and the reported counts sum to at most that.
C10_ConcurrentAtMostThreeEach ==
    /\ \A p \in Procs : inserted[p] <= 3
    /\ Len(job) <= 3 * NumProcs
    /\ reported <= Len(job)

\* C10 witness: every request slot has seeded the collection once.
C10_Witness == Len(job) = 3 * NumProcs /\ reported = 3 * NumProcs

====
